---- MODULE Spec2Model ----
(***************************************************************************)
(* Model of src/bioregistry_curator/app.py: the POST /extract pipeline     *)
(* (extract), the Metadata Client (extract_pubmed_metadata), the parsing   *)
(* and post-processing of the agent reply (extract_database_info) and the  *)
(* Record Assembler (format_bioregistry_json).                             *)
(*                                                                         *)
(* Text the code inspects with regular expressions or string methods is a  *)
(* sequence of one-character strings; text the code only copies (title,    *)
(* doi, messages) is a TLA+ string.  The alphabet is ASCII.                *)
(***************************************************************************)
EXTENDS Integers, Sequences, FiniteSets, TLC

VARIABLES pc, data, pmid, contributor, raw, pubmed, urls, homepage_url,
          final, extracted, db_data, failure, bioreg, responses, trace

vars == <<pc, data, pmid, contributor, raw, pubmed, urls, homepage_url,
          final, extracted, db_data, failure, bioreg, responses, trace>>

(***************************************************************************)
(* Characters and the string methods the code uses.                        *)
(***************************************************************************)
UpperSeq == <<"A","B","C","D","E","F","G","H","I","J","K","L","M",
              "N","O","P","Q","R","S","T","U","V","W","X","Y","Z">>
LowerSeq == <<"a","b","c","d","e","f","g","h","i","j","k","l","m",
              "n","o","p","q","r","s","t","u","v","w","x","y","z">>
DigitSeq == <<"0","1","2","3","4","5","6","7","8","9">>

Range(s) == {s[i] : i \in DOMAIN s}

Upper == Range(UpperSeq)
Lower == Range(LowerSeq)
Digit == Range(DigitSeq)
Space == {" ", "\t", "\n", "\r"}

\* str.lower() on one character
LowerChar(c) ==
  IF c \in Upper THEN LowerSeq[CHOOSE i \in DOMAIN UpperSeq : UpperSeq[i] = c]
  ELSE c

\* str.lower()
ToLower(s) == [i \in DOMAIN s |-> LowerChar(s[i])]

\* s[i:] of Python, for a 1-based i
Drop(s, i) == SubSeq(s, i, Len(s))

\* s.startswith(p) at 1-based position i
StartsAt(s, i, p) ==
  /\ i + Len(p) - 1 <= Len(s)
  /\ \A k \in 1..Len(p) : s[i + k - 1] = p[k]

\* the first position k >= i of s whose character lies in cls, Len(s) + 1
\* when there is none
FirstIn(s, i, cls) ==
  IF i > Len(s) THEN Len(s) + 1
  ELSE CHOOSE k \in i..(Len(s) + 1) :
         /\ k = Len(s) + 1 \/ s[k] \in cls
         /\ \A j \in i..(k - 1) : s[j] \notin cls

\* the first position k >= i of s whose character lies outside cls, Len(s) + 1
\* when there is none
FirstNotIn(s, i, cls) ==
  IF i > Len(s) THEN Len(s) + 1
  ELSE CHOOSE k \in i..(Len(s) + 1) :
         /\ k = Len(s) + 1 \/ s[k] \notin cls
         /\ \A j \in i..(k - 1) : s[j] \in cls

\* the number of leading characters of s that lie in the class cls
SpanLen(s, cls) == FirstNotIn(s, 1, cls) - 1

\* the number of trailing characters of s that lie in the class cls
TrailLen(s, cls) ==
  LET k == CHOOSE m \in 0..Len(s) :
             /\ m = 0 \/ s[m] \notin cls
             /\ \A j \in (m + 1)..Len(s) : s[j] \in cls
  IN  Len(s) - k

\* str.lstrip() / str.rstrip() / str.strip()
LStrip(s) == Drop(s, SpanLen(s, Space) + 1)

RStrip(s) == SubSeq(s, 1, Len(s) - TrailLen(s, Space))

Strip(s) == RStrip(LStrip(s))

\* str(n) of a natural number
RECURSIVE IntToStr(_)
IntToStr(n) ==
  IF n < 10 THEN <<DigitSeq[n + 1]>>
  ELSE IntToStr(n \div 10) \o <<DigitSeq[(n % 10) + 1]>>

\* ''.join(parts)
RECURSIVE Join(_)
Join(parts) == IF parts = <<>> THEN <<>> ELSE Head(parts) \o Join(Tail(parts))

(***************************************************************************)
(* Text Scanner: re.findall(r"https?://[^\s\)\]]+", text) followed by      *)
(* re.sub(r"[\.,;:]+$", "", u) on every match.                             *)
(***************************************************************************)
Http  == <<"h","t","t","p",":","/","/">>
Https == <<"h","t","t","p","s",":","/","/">>

UrlStop  == Space \cup {")", "]"}
TrailPunct == {".", ",", ";", ":"}

\* length of the scheme matched by https?:// at position i, 0 when none
SchemeLenAt(s, i) ==
  IF StartsAt(s, i, Https) THEN Len(Https)
  ELSE IF StartsAt(s, i, Http) THEN Len(Http)
  ELSE 0

\* length of the run [^\s\)\]]* starting at position i
RunLenAt(s, i) == FirstIn(s, i, UrlStop) - i

\* length of the match of the whole pattern at position i, 0 when none
UrlMatchLenAt(s, i) ==
  LET k == SchemeLenAt(s, i)
      r == IF k = 0 THEN 0 ELSE RunLenAt(s, i + k)
  IN  IF k > 0 /\ r > 0 THEN k + r ELSE 0

\* re.findall: leftmost non-overlapping matches, scanning from position i
RECURSIVE FindAllFrom(_, _)
FindAllFrom(s, i) ==
  IF \E k \in i..Len(s) : UrlMatchLenAt(s, k) > 0
  THEN LET k == CHOOSE m \in i..Len(s) :
                  /\ UrlMatchLenAt(s, m) > 0
                  /\ \A j \in i..(m - 1) : UrlMatchLenAt(s, j) = 0
           n == UrlMatchLenAt(s, k)
       IN  <<SubSeq(s, k, k + n - 1)>> \o FindAllFrom(s, k + n)
  ELSE <<>>

\* re.sub(r"[\.,;:]+$", "", u)
CleanUrl(u) == SubSeq(u, 1, Len(u) - TrailLen(u, TrailPunct))

\* urls = [re.sub(...) for u in raw_urls]
ScanUrls(text) ==
  LET found == FindAllFrom(text, 1)
  IN  [i \in DOMAIN found |-> CleanUrl(found[i])]

(***************************************************************************)
(* Metadata Client: extract_pubmed_metadata(pmid).  The bibliographic      *)
(* service is a collaborator; what it hands back is the record raw:        *)
(*   kind = "import_error"  the import of the client library raised exc    *)
(*   kind = "fetch_error"   get_metadata_for_ids raised exc                *)
(*   kind = "empty"         it returned nothing (None or {})               *)
(*   kind = "bad_item"      it returned a mapping whose entry is None      *)
(*   kind = "ok"            it returned a mapping whose entry is item      *)
(* A key missing from item is the empty value of its type; year is         *)
(* [t |-> "none", v |-> 0] when missing, else [t |-> "int", v |-> n] or    *)
(* [t |-> "str", v |-> chars].                                             *)
(***************************************************************************)

\* Python's None, and an optional value that is present
None == <<>>
Some(x) == <<x>>

\* dict.get(key, "")
Get(d, key) == IF key \in DOMAIN d THEN d[key] ELSE ""

\* the value of a string of decimal digits
RECURSIVE DigitsValue(_)
DigitsValue(s) ==
  IF s = <<>> THEN 0
  ELSE 10 * DigitsValue(SubSeq(s, 1, Len(s) - 1))
       + (CHOOSE d \in 0..9 : DigitSeq[d + 1] = s[Len(s)])

IsDigits(s) == s # <<>> /\ \A i \in DOMAIN s : s[i] \in Digit

\* int(x) inside try/except: None when int() raises
IntOrNone(y) ==
  IF y.t = "int" THEN Some(y.v)
  ELSE LET body == Strip(y.v)
           sign == IF body # <<>> /\ Head(body) \in {"+", "-"} THEN Head(body) ELSE ""
           digs == IF sign = "" THEN body ELSE Tail(body)
       IN  IF IsDigits(digs)
           THEN Some(IF sign = "-" THEN 0 - DigitsValue(digs) ELSE DigitsValue(digs))
           ELSE None

\* bool(item.get("year"))
YearTruthy(y) ==
  /\ y.t # "none"
  /\ IF y.t = "int" THEN y.v # 0 ELSE y.v # <<>>

\* re.search(r"(19|20)\d{2}", pubdate)
YearMatchAt(s, i) ==
  /\ i + 3 <= Len(s)
  /\ SubSeq(s, i, i + 1) \in {<<"1","9">>, <<"2","0">>}
  /\ s[i + 2] \in Digit
  /\ s[i + 3] \in Digit

SearchYear(pubdate) ==
  IF \E i \in DOMAIN pubdate : YearMatchAt(pubdate, i)
  THEN LET i == CHOOSE k \in DOMAIN pubdate :
                  /\ YearMatchAt(pubdate, k)
                  /\ \A j \in 1..(k - 1) : ~YearMatchAt(pubdate, j)
       IN  Some(DigitsValue(SubSeq(pubdate, i, i + 3)))
  ELSE None

NormalizeYear(item) ==
  IF YearTruthy(item.year) THEN IntOrNone(item.year)
  ELSE SearchYear(item.pubdate)

\* s.split(sep) for a one-character separator
RECURSIVE SplitOn(_, _)
SplitOn(s, sep) ==
  IF \E i \in DOMAIN s : s[i] = sep
  THEN LET i == CHOOSE k \in DOMAIN s :
                  s[k] = sep /\ \A j \in 1..(k - 1) : s[j] # sep
       IN  <<SubSeq(s, 1, i - 1)>> \o SplitOn(Drop(s, i + 1), sep)
  ELSE <<s>>

\* [f(x) for x in xs if keep(x)] with f = strip: the two comprehensions of the code
RECURSIVE StripAll(_)
StripAll(xs) ==
  IF xs = <<>> THEN <<>> ELSE <<Strip(Head(xs))>> \o StripAll(Tail(xs))

RECURSIVE DropEmpty(_)
DropEmpty(xs) ==
  IF xs = <<>> THEN <<>>
  ELSE IF Head(xs) = <<>> THEN DropEmpty(Tail(xs))
  ELSE <<Head(xs)>> \o DropEmpty(Tail(xs))

\* [k.strip() for k in str(kw).split(',') if k.strip()]
SplitKeywords(val) == DropEmpty(StripAll(SplitOn(val, ",")))

\* keywords: a list of terms [t |-> "list", v |-> <<...>>] or one
\* comma-separated string [t |-> "str", v |-> chars]
NormalizeKeywords(kw) ==
  IF kw.v = <<>> THEN <<>>
  ELSE IF kw.t = "list" THEN StripAll(DropEmpty(kw.v))
  ELSE SplitKeywords(kw.v)

FirstAuthor(authors) == IF authors = <<>> THEN "" ELSE Head(authors)

OrElse(a, b) == IF a # "" THEN a ELSE b

BuildMetadata(id, item) ==
  LET urlsFound == ScanUrls(item.abstract)
  IN  [title        |-> item.title,
       doi          |-> OrElse(item.doi, item.elocationid),
       abstract     |-> item.abstract,
       first_author |-> FirstAuthor(item.authors),
       pmid         |-> id,
       year         |-> NormalizeYear(item),
       homepage     |-> IF urlsFound # <<>> THEN urlsFound[1] ELSE <<>>,
       keywords     |-> NormalizeKeywords(item.keywords)]

\* the value extract_pubmed_metadata returns (raw.kind # "bad_item")
extract_pubmed_metadata(id, r) ==
  IF r.kind = "import_error" THEN [error |-> "INDRA import error: " \o r.exc]
  ELSE IF r.kind = "fetch_error" THEN [error |-> "PubMed fetch error: " \o r.exc]
  ELSE IF r.kind = "empty" THEN [error |-> "No metadata returned from PubMed"]
  ELSE BuildMetadata(id, r.item)

(***************************************************************************)
(* Database-Info Extractor: extract_database_info(homepage_url), from the  *)
(* agent's final answer onwards.  The agent is a collaborator: final is    *)
(* the text it answered, or the call raised.                               *)
(***************************************************************************)
Backslash == "\\"
Newline == "\n"

\* s.replace(old, new) for a two-character old and a one-character new
RECURSIVE Replace2(_, _, _)
Replace2(s, old, new) ==
  IF \E i \in DOMAIN s : StartsAt(s, i, old)
  THEN LET i == CHOOSE k \in DOMAIN s :
                  StartsAt(s, k, old) /\ \A j \in 1..(k - 1) : ~StartsAt(s, j, old)
       IN  SubSeq(s, 1, i - 1) \o <<new>> \o Replace2(Drop(s, i + 2), old, new)
  ELSE s

LineBreak == {"\n", "\r"}

\* str.splitlines(): a line ends at \n, \r or \r\n; no empty last line
RECURSIVE SplitLines(_)
SplitLines(s) ==
  IF s = <<>> THEN <<>>
  ELSE IF \E i \in DOMAIN s : s[i] \in LineBreak
  THEN LET i == CHOOSE k \in DOMAIN s :
                  s[k] \in LineBreak /\ \A j \in 1..(k - 1) : s[j] \notin LineBreak
           n == IF s[i] = "\r" /\ i < Len(s) /\ s[i + 1] = "\n" THEN 2 ELSE 1
       IN  <<SubSeq(s, 1, i - 1)>> \o SplitLines(Drop(s, i + n))
  ELSE <<s>>

\* lines = [ln.strip() for ln in text.splitlines() if ln.strip()]
ReplyLines(text) == DropEmpty(StripAll(SplitLines(text)))

\* position of the first ':' of ln, 0 when there is none
FirstColon(ln) ==
  IF \E i \in DOMAIN ln : ln[i] = ":"
  THEN CHOOSE k \in DOMAIN ln : ln[k] = ":" /\ \A j \in 1..(k - 1) : ln[j] # ":"
  ELSE 0

LabelSep == Space \cup {"_", "-"}

\* re.sub(r"[_\-\s]+", "_", raw_label).lower()
RECURSIVE CollapseSeps(_)
CollapseSeps(s) ==
  LET a == FirstIn(s, 1, LabelSep)
      b == FirstNotIn(s, a, LabelSep)
  IN  IF a > Len(s) THEN s
      ELSE SubSeq(s, 1, a - 1) \o <<"_">> \o CollapseSeps(Drop(s, b))

NormalizeLabel(raw_label) == ToLower(CollapseSeps(raw_label))

\* sub in s
Contains(s, sub) == \E i \in 1..(Len(s) + 1) : StartsAt(s, i, sub)

L_name          == <<"n","a","m","e">>
L_prefix        == <<"p","r","e","f","i","x">>
L_description   == <<"d","e","s","c","r","i","p","t","i","o","n">>
L_homepage      == <<"h","o","m","e","p","a","g","e">>
L_example       == <<"e","x","a","m","p","l","e">>
L_pattern       == <<"p","a","t","t","e","r","n">>
L_uri           == <<"u","r","i">>
L_format        == <<"f","o","r","m","a","t">>
L_contact_name  == <<"c","o","n","t","a","c","t","_","n","a","m","e">>
L_contact_email == <<"c","o","n","t","a","c","t","_","e","m","a","i","l">>
L_keywords      == <<"k","e","y","w","o","r","d","s">>

\* [...][:3]
Take(xs, n) == SubSeq(xs, 1, IF Len(xs) < n THEN Len(xs) ELSE n)

EmptyExtracted ==
  [name |-> <<>>, prefix |-> <<>>, description |-> <<>>, homepage |-> <<>>,
   example |-> <<>>, pattern |-> <<>>, uri_format |-> <<>>,
   contact_name |-> <<>>, contact_email |-> <<>>, keywords |-> <<>>]

\* the body of the loop over lines, for one line
ParseLine(ex, ln) ==
  LET c == FirstColon(ln)
  IN  IF c <= 1 THEN ex
      ELSE
        LET raw_label  == Strip(SubSeq(ln, 1, c - 1))
            val        == Strip(Drop(ln, c + 1))
            label_norm == NormalizeLabel(raw_label)
        IN  IF label_norm = L_name THEN [ex EXCEPT !.name = val]
            ELSE IF label_norm = L_prefix THEN [ex EXCEPT !.prefix = ToLower(val)]
            ELSE IF label_norm = L_description THEN [ex EXCEPT !.description = val]
            ELSE IF label_norm = L_homepage THEN [ex EXCEPT !.homepage = val]
            ELSE IF label_norm = L_example THEN [ex EXCEPT !.example = val]
            ELSE IF label_norm = L_pattern
              THEN [ex EXCEPT !.pattern = Replace2(val, <<Backslash, Backslash>>, Backslash)]
            ELSE IF Contains(label_norm, L_uri) /\ Contains(label_norm, L_format)
              THEN [ex EXCEPT !.uri_format = val]
            ELSE IF label_norm = L_contact_name THEN [ex EXCEPT !.contact_name = val]
            ELSE IF label_norm = L_contact_email THEN [ex EXCEPT !.contact_email = val]
            ELSE IF label_norm = L_keywords
              THEN [ex EXCEPT !.keywords = Take(SplitKeywords(val), 3)]
            ELSE ex

RECURSIVE ParseLines(_, _)
ParseLines(ex, lines) ==
  IF lines = <<>> THEN ex
  ELSE ParseLines(ParseLine(ex, Head(lines)), Tail(lines))

\* the dictionary extracted at the end of the loop over lines
ParseReply(reply) ==
  ParseLines(EmptyExtracted,
             ReplyLines(Replace2(reply, <<Backslash, "n">>, Newline)))

Letter == Upper \cup Lower
EmailLocal  == Letter \cup Digit \cup {".", "_", "%", "+", "-"}
EmailDomain == Letter \cup Digit \cup {".", "-"}

\* length of the match of [A-Za-z0-9._%+-]+@[A-Za-z0-9.-]+\.[A-Za-z]{2,}
\* at position q, 0 when none
EmailLenAt(s, q) ==
  LET l  == SpanLen(Drop(s, q), EmailLocal)
      at == q + l
      d  == at + 1
      n  == SpanLen(Drop(s, d), EmailDomain)
      J  == {j \in (d + 1)..(d + n - 1) :
               s[j] = "." /\ SpanLen(Drop(s, j + 1), Letter) >= 2}
  IN  IF l >= 1 /\ at <= Len(s) /\ s[at] = "@" /\ J # {}
      THEN LET j == CHOOSE x \in J : \A y \in J : y <= x
           IN  (j + SpanLen(Drop(s, j + 1), Letter)) - q + 1
      ELSE 0

\* re.search(email, s).group(1), <<>> when there is no match
SearchEmail(s) ==
  IF \E q \in DOMAIN s : EmailLenAt(s, q) > 0
  THEN LET q == CHOOSE k \in DOMAIN s :
                  /\ EmailLenAt(s, k) > 0
                  /\ \A j \in 1..(k - 1) : EmailLenAt(s, j) = 0
       IN  SubSeq(s, q, q + EmailLenAt(s, q) - 1)
  ELSE <<>>

\* length of the match of \s*[\(\[]?EMAIL[\)\]]?\s* at position p, 0 when none
BracketedEmailLenAt(s, p) ==
  LET w  == SpanLen(Drop(s, p), Space)
      b  == IF p + w <= Len(s) /\ s[p + w] \in {"(", "["} THEN 1 ELSE 0
      e  == EmailLenAt(s, p + w + b)
      z  == p + w + b + e
      cb == IF z <= Len(s) /\ s[z] \in {")", "]"} THEN 1 ELSE 0
      tw == SpanLen(Drop(s, z + cb), Space)
  IN  IF e > 0 THEN w + b + e + cb + tw ELSE 0

\* re.sub(bracketed email, '', s), scanning from position p
RECURSIVE RemoveEmailsFrom(_, _)
RemoveEmailsFrom(s, p) ==
  IF \E k \in p..Len(s) : BracketedEmailLenAt(s, k) > 0
  THEN LET k == CHOOSE m \in p..Len(s) :
                  /\ BracketedEmailLenAt(s, m) > 0
                  /\ \A j \in p..(m - 1) : BracketedEmailLenAt(s, j) = 0
       IN  SubSeq(s, p, k - 1) \o RemoveEmailsFrom(s, k + BracketedEmailLenAt(s, k))
  ELSE Drop(s, p)

\* post-processing 1: the e-mail address inside the contact name
FixContact(ex) ==
  IF ex.contact_email = <<>> /\ ex.contact_name # <<>>
     /\ SearchEmail(ex.contact_name) # <<>>
  THEN [ex EXCEPT !.contact_email = SearchEmail(ex.contact_name),
                  !.contact_name  = Strip(RemoveEmailsFrom(ex.contact_name, 1))]
  ELSE ex

\* a variant of CountDigits that counts every character of the example
CountDigits_Len(s) == Len(s)

\* len(re.findall(r'\d', example))
CountDigits(s) == Cardinality({i \in DOMAIN s : s[i] \in Digit})

\* re.match(r'^[A-Z]+\d+$', example)
IsLettersDigits(example) ==
  LET u == SpanLen(example, Upper)
  IN  u >= 1 /\ IsDigits(Drop(example, u + 1))

\* f"^{letters}\\d{{{digits}}}$"
PatternFor(letters, digits) ==
  <<"^">> \o letters \o <<Backslash, "d", "{">> \o IntToStr(digits) \o <<"}", "$">>

\* the pattern inferred from the example, <<>> when none is
InferPattern(example) ==
  IF IsLettersDigits(example)
  THEN PatternFor(SubSeq(example, 1, SpanLen(example, Upper)), CountDigits(example))
  ELSE IF IsDigits(example) THEN PatternFor(<<>>, Len(example))
  ELSE <<>>

\* post-processing 2: the pattern inferred from the example
FixPattern(ex) ==
  IF ex.pattern = <<>> /\ ex.example # <<>> /\ InferPattern(ex.example) # <<>>
  THEN [ex EXCEPT !.pattern = InferPattern(ex.example)]
  ELSE ex

\* post-processing 3: the homepage falls back to the URL that was visited
FixHomepage(ex, url) ==
  IF ex.homepage = <<>> THEN [ex EXCEPT !.homepage = url] ELSE ex

\* str.split(): the maximal runs of non-whitespace characters
RECURSIVE Words(_)
Words(s) ==
  LET t == LStrip(s)
  IN  IF t = <<>> THEN <<>>
      ELSE LET k == CHOOSE m \in 1..Len(t) :
                      /\ \A j \in 1..m : t[j] \notin Space
                      /\ (m = Len(t) \/ t[m + 1] \in Space)
           IN  <<SubSeq(t, 1, k)>> \o Words(Drop(t, k + 1))

\* ''.join([w[0] for w in words if w]).lower()
RECURSIVE Initials(_)
Initials(words) ==
  IF words = <<>> THEN <<>> ELSE <<Head(words)[1]>> \o Initials(Tail(words))

\* a variant of DerivePrefix that keeps the case of the initials
DerivePrefix_NoLower(name) == Initials(Words(name))

DerivePrefix(name) == ToLower(Initials(Words(name)))

\* post-processing 4: the prefix derived from the name
FixPrefix(ex) ==
  IF ex.prefix = <<>> /\ ex.name # <<>>
  THEN [ex EXCEPT !.prefix = DerivePrefix(ex.name)]
  ELSE ex

PostProcess(ex, url) == FixPrefix(FixHomepage(FixPattern(FixContact(ex)), url))

\* the dictionary the function returns
DatabaseInfo(ex) ==
  [name |-> ex.name, prefix |-> ex.prefix, description |-> ex.description,
   homepage |-> ex.homepage, example |-> ex.example, pattern |-> ex.pattern,
   uri_format |-> ex.uri_format, keywords |-> ex.keywords,
   contact |-> [email |-> ex.contact_email, name |-> ex.contact_name, orcid |-> <<>>]]

extract_database_info(url, reply) == DatabaseInfo(PostProcess(ParseReply(reply), url))

(***************************************************************************)
(* Record Assembler: format_bioregistry_json(pubmed, db, contributor).     *)
(* db is None when the scraping was skipped or failed.                     *)
(***************************************************************************)
Www == <<"w","w","w",".">>
LabelStop == {"/", "."}

\* length of the run [^/\.]* starting at position i
LabelLenAt(s, i) == FirstIn(s, i, LabelStop) - i

\* group 1 of https?://(?:www\.)?([^/\.]+) matched at position i, <<>> when
\* the pattern does not match there
DomainLabelAt(s, i) ==
  LET k == SchemeLenAt(s, i)
      h == i + k
      w == IF StartsAt(s, h, Www) THEN LabelLenAt(s, h + Len(Www)) ELSE 0
      n == LabelLenAt(s, h)
  IN  IF k = 0 THEN <<>>
      ELSE IF w > 0 THEN SubSeq(s, h + Len(Www), h + Len(Www) + w - 1)
      ELSE SubSeq(s, h, h + n - 1)

DefaultName == <<"d","a","t","a","b","a","s","e">>
DefaultKey  == <<"d","a","t","a","b","a","s","e","_","k","e","y">>

\* m = re.search(...); name = m.group(1) if m else "database"
NameFromHomepage(homepage) ==
  IF \E i \in DOMAIN homepage : DomainLabelAt(homepage, i) # <<>>
  THEN LET i == CHOOSE k \in DOMAIN homepage :
                  /\ DomainLabelAt(homepage, k) # <<>>
                  /\ \A j \in 1..(k - 1) : DomainLabelAt(homepage, j) = <<>>
       IN  DomainLabelAt(homepage, i)
  ELSE DefaultName

\* t matches \d+(?:\.\d+)* up to its end
RECURSIVE IsVersionNumber(_)
IsVersionNumber(t) ==
  LET n == SpanLen(t, Digit)
  IN  /\ n >= 1
      /\ \/ n = Len(t)
         \/ /\ t[n + 1] = "."
            /\ IsVersionNumber(Drop(t, n + 2))

KwV       == <<"v">>
KwVersion == <<"v","e","r","s","i","o","n">>

\* a variant of IsVersionSuffix without the (?i) flag
IsVersionSuffix_CaseSensitive(t) ==
  LET u == LStrip(t)
  IN  \E kw \in {KwV, KwVersion} :
        /\ StartsAt(u, 1, kw)
        /\ IsVersionNumber(LStrip(Drop(u, Len(kw) + 1)))

\* t matches (?i)\s*(?:v|version)\s*\d+(?:\.\d+)*$ from its first character
IsVersionSuffix(t) ==
  LET u == LStrip(t)
  IN  \E kw \in {KwV, KwVersion} :
        /\ StartsAt(ToLower(u), 1, kw)
        /\ IsVersionNumber(LStrip(Drop(u, Len(kw) + 1)))

\* re.sub(r"(?i)\s*(?:v|version)\s*\d+(?:\.\d+)*$", "", name).strip()
CleanName(name) ==
  IF \E p \in DOMAIN name : IsVersionSuffix(Drop(name, p))
  THEN LET p == CHOOSE k \in DOMAIN name :
                  /\ IsVersionSuffix(Drop(name, k))
                  /\ \A j \in 1..(k - 1) : ~IsVersionSuffix(Drop(name, j))
       IN  Strip(SubSeq(name, 1, p - 1))
  ELSE Strip(name)

AlNum == Letter \cup Digit

IsAlNum(c) == c \in AlNum

\* re.sub(r"[^0-9a-zA-Z]+", "", s)
KeepAlNum(s) == SelectSeq(s, IsAlNum)

\* a variant of PrefixFromName in which the default key is lost
PrefixFromName_NoDefault(name) == ToLower(KeepAlNum(CleanName(name)))

\* re.sub(...).lower() or "database_key"
PrefixFromName(name) ==
  LET p == ToLower(KeepAlNum(CleanName(name)))
  IN  IF p # <<>> THEN p ELSE DefaultKey

\* (db.get(field) if db else "")
DbGet(db, field) == IF db # None THEN db[field] ELSE <<>>

\* pubmed.get(field) or default
PmGet(pm, field, default) == IF field \in DOMAIN pm THEN pm[field] ELSE default

\* (db.get("homepage") if db else "") or pubmed.get("homepage", "")
ResolveHomepage(pm, db) ==
  IF DbGet(db, "homepage") # <<>> THEN DbGet(db, "homepage")
  ELSE PmGet(pm, "homepage", <<>>)

ResolveName(pm, db) ==
  IF Strip(DbGet(db, "name")) # <<>> THEN Strip(DbGet(db, "name"))
  ELSE NameFromHomepage(ResolveHomepage(pm, db))

ResolvePrefix(pm, db) ==
  IF Strip(DbGet(db, "prefix")) # <<>> THEN Strip(DbGet(db, "prefix"))
  ELSE PrefixFromName(ResolveName(pm, db))

ResolveContact(db) ==
  IF db # None THEN db.contact
  ELSE [email |-> <<>>, name |-> <<>>, orcid |-> <<>>]

\* contributor.get(key, "") or ""
ContributorInfo(c) ==
  [email |-> Get(c, "email"), github |-> Get(c, "github"),
   name |-> Get(c, "name"), orcid |-> Get(c, "orcid")]

ResolveKeywords(pm, db) ==
  IF PmGet(pm, "keywords", <<>>) # <<>> THEN pm.keywords
  ELSE IF db # None THEN db.keywords
  ELSE <<>>

\* pubmed.get("year") or None
YearOrNone(y) == IF y # None /\ y[1] # 0 THEN y ELSE None

\* a variant of Publications that omits the entry of an untitled publication
Publications_IfTitle(pm) ==
  IF PmGet(pm, "title", "") # ""
  THEN <<[doi    |-> PmGet(pm, "doi", ""),
          pubmed |-> PmGet(pm, "pmid", <<>>),
          title  |-> PmGet(pm, "title", ""),
          year   |-> YearOrNone(PmGet(pm, "year", None))]>>
  ELSE <<>>

\* the publications list
Publications(pm) ==
  IF DOMAIN pm # {}
  THEN <<[doi    |-> PmGet(pm, "doi", ""),
          pubmed |-> PmGet(pm, "pmid", <<>>),
          title  |-> PmGet(pm, "title", ""),
          year   |-> YearOrNone(PmGet(pm, "year", None))]>>
  ELSE <<>>

BioregistryRecord(pm, db, c) ==
  [contact              |-> ResolveContact(db),
   contributor          |-> ContributorInfo(c),
   description          |-> DbGet(db, "description"),
   example              |-> DbGet(db, "example"),
   github_request_issue |-> <<>>,
   homepage             |-> ResolveHomepage(pm, db),
   keywords             |-> ResolveKeywords(pm, db),
   name                 |-> ResolveName(pm, db),
   pattern              |-> DbGet(db, "pattern"),
   publications         |-> Publications(pm),
   uri_format           |-> DbGet(db, "uri_format")]

\* out = {db_key: {...}}
format_bioregistry_json(pm, db, c) ==
  ResolvePrefix(pm, db) :> BioregistryRecord(pm, db, c)

(***************************************************************************)
(* The requests, upstream answers and agent answers the pipeline is run on.*)
(***************************************************************************)
MaxPmidLen == 3

PmidAlphabet == {"1", "7", "a", ".", " "}

\* every string over PmidAlphabet of length <= MaxPmidLen
PmidStrings == UNION {[1..n -> PmidAlphabet] : n \in 0..MaxPmidLen}

Pmid12345678 == <<"1","2","3","4","5","6","7","8">>

NoContributor == [k \in {} |-> ""]
Contributors ==
  {NoContributor, [name |-> "Ann Lee", orcid |-> "0000-0001-2345-6789"]}

\* request.get_json() or {}; a missing pmid is the empty string
Bodies ==
  {[pmid |-> p, contributor |-> c] :
     p \in PmidStrings \cup {Pmid12345678}, c \in Contributors}

NoYear == [t |-> "none", v |-> 0]
NoKeywords == [t |-> "list", v |-> <<>>]

AbstractTwoUrls ==
  <<"s","e","e"," ","h","t","t","p",":","/","/","a",".","c","o","/",
    "x",","," ","a","n","d"," ","h","t","t","p","s",":","/","/","b",
    ".","o","r","g","/","y",")",".">>
AbstractKegg ==
  <<"K","E","G","G"," ","(","h","t","t","p","s",":","/","/","w","w",
    "w",".","k","e","g","g",".","j","p","/","k","e","g","g","2",".",
    "h","t","m","l",")"," ","i","s"," ","a"," ","d","a","t","a","b",
    "a","s","e",".">>
AbstractNoUrl ==
  <<"A"," ","d","a","t","a","b","a","s","e"," ","o","f"," ","g","e",
    "n","e","s",".">>
AbstractBareScheme ==
  <<"V","i","s","i","t"," ","h","t","t","p",":","/","/",".">>

ItemFull ==
  [title |-> "KEGG: new perspectives", doi |-> "10.1093/nar/28.1.27",
   elocationid |-> "", abstract |-> AbstractTwoUrls,
   authors |-> <<"Kanehisa M", "Goto S">>,
   year |-> [t |-> "int", v |-> 2021], pubdate |-> <<>>,
   keywords |-> [t |-> "list",
                 v |-> <<<<"G","e","n","o","m","e">>,
                         <<" ","D","a","t","a","b","a","s","e","s",","," ","G","e","n","e",
      "t","i","c">>>>]]

ItemEmpty ==
  [title |-> "", doi |-> "", elocationid |-> "", abstract |-> <<>>,
   authors |-> <<>>, year |-> NoYear, pubdate |-> <<>>,
   keywords |-> NoKeywords]

ItemKegg ==
  [title |-> "KEGG", doi |-> "", elocationid |-> "pii:gkaa970",
   abstract |-> AbstractKegg, authors |-> <<"Kanehisa M">>,
   year |-> [t |-> "str", v |-> <<"1","9","9","8">>], pubdate |-> <<>>,
   keywords |-> [t |-> "str",
                 v |-> <<"g","e","n","e","s",","," ","p","a","t","h","w","a","y","s",",",
      ","," ">>]]

ItemNoUrl ==
  [title |-> "A database", doi |-> "10.1/x", elocationid |-> "",
   abstract |-> AbstractNoUrl, authors |-> <<>>,
   year |-> NoYear, pubdate |-> <<"2","0","1","9"," ","J","a","n"," ","8">>,
   keywords |-> NoKeywords]

ItemBareScheme ==
  [title |-> "B", doi |-> "", elocationid |-> "",
   abstract |-> AbstractBareScheme, authors |-> <<>>,
   year |-> [t |-> "str", v |-> <<"n",".","d",".">>], pubdate |-> <<"2","0","2","0">>,
   keywords |-> NoKeywords]

Items == {ItemFull, ItemEmpty, ItemKegg, ItemNoUrl, ItemBareScheme}

RawResults ==
  {[kind |-> "import_error", exc |-> "No module named 'indra'"],
   [kind |-> "fetch_error", exc |-> "HTTP Error 429: Too Many Requests"],
   [kind |-> "empty"],
   [kind |-> "bad_item"]}
  \cup {[kind |-> "ok", item |-> it] : it \in Items}

ReplyKegg ==
  <<"N","a","m","e",":"," ","K","y","o","t","o"," ","E","n","c","y",
    "c","l","o","p","e","d","i","a"," ","o","f"," ","G","e","n","e",
    "s"," ","a","n","d"," ","G","e","n","o","m","e","s","\n","P","r",
    "e","f","i","x",":"," ","K","E","G","G","\n","D","e","s","c","r",
    "i","p","t","i","o","n",":"," ","G","e","n","e","s","\n","H","o",
    "m","e","p","a","g","e",":"," ","h","t","t","p","s",":","/","/",
    "w","w","w",".","k","e","g","g",".","j","p","\n","E","x","a","m",
    "p","l","e",":"," ","K","0","0","0","0","1","\n","P","a","t","t",
    "e","r","n",":"," ","^","K","\\","\\","d","{","5","}","$","\n",
    "U","R","I"," ","F","o","r","m","a","t",":"," ","h","t","t","p",
    "s",":","/","/","w","w","w",".","k","e","g","g",".","j","p","/",
    "e","n","t","r","y","/","$","1","\n","C","o","n","t","a","c","t",
    "-","N","a","m","e",":"," ","M"," ","K","a","n","e","h","i","s",
    "a","\n","C","o","n","t","a","c","t","_","E","m","a","i","l",":",
    " ","k","@","k","e","g","g",".","j","p","\n","K","e","y","w","o",
    "r","d","s",":"," ","a",","," ","b",","," ","c",","," ","d">>

ReplyNoPrefix ==
  <<"N","a","m","e",":"," ","K","y","o","t","o"," ","E","n","c","y",
    "c","l","o","p","e","d","i","a"," ","o","f"," ","G","e","n","e",
    "s"," ","a","n","d"," ","G","e","n","o","m","e","s","\\","n","E",
    "x","a","m","p","l","e",":"," ","A","B","C","1","2","3","\\","n",
    "c","o","n","t","a","c","t"," ","n","a","m","e",":"," ","J","a",
    "n","e"," ","D","o","e"," ","(","j","a","n","e","@","x",".","o",
    "r","g",")","\\","n","N","o","t","e"," ","-"," ","n","o","n","e">>

ReplyLower ==
  <<"E","x","a","m","p","l","e",":"," ","a","b","c","1","2","3","\n",
    "H","o","m","e","p","a","g","e",":"," ","N","/","A">>

ReplyEmpty == <<>>

\* an answer with a homepage only, whose domain label is a version number
ReplyVersionHost ==
  <<"H","o","m","e","p","a","g","e",":"," ","h","t","t","p","s",":",
  "/","/","V","2",".","e","x","a","m","p","l","e",".","o","r","g",
  "/","d","b">>

Replies == {ReplyKegg, ReplyNoPrefix, ReplyLower, ReplyEmpty, ReplyVersionHost}

AgentErrors == {"Timeout 30000ms exceeded", "OPENAI_API_KEY is not set"}

(***************************************************************************)
(* HTTP Endpoint: extract().  pc is the position of the handler; trace is  *)
(* the sequence of stages it has gone through; responses is what it has    *)
(* returned to the caller.                                                 *)
(***************************************************************************)
InvalidPmidMessage == "Invalid PMID. Provide numeric PMID like 12345678."
NoUrlMessage ==
  "No homepage URL found in the PubMed abstract; cannot run browser-use scraping."
ScrapingFailedPrefix == "Database scraping failed: "
NoneTypeMessage == "'NoneType' object has no attribute 'get'"

\* re.fullmatch(r"\d+", pmid)
FullMatchDigits(s) == s # <<>> /\ \A i \in DOMAIN s : s[i] \in Digit

\* a variant of ValidPmid that uses re.search in place of re.fullmatch
ValidPmid_Search(s) == s # <<>> /\ \E i \in DOMAIN s : s[i] \in Digit

\* not (not pmid or not re.fullmatch(r"\d+", pmid))
ValidPmid(s) == s # <<>> /\ FullMatchDigits(s)

\* a variant of HasError in which the check of the error field is lost
HasError_Never(pm) == FALSE

\* bool(pubmed.get('error'))
HasError(pm) == "error" \in DOMAIN pm /\ pm.error # ""

ErrorBody(msg) == [status |-> "error", message |-> msg]
\* a variant of PartialBody that drops the partial record
PartialBody_NoData(msg, rec) == [status |-> "error", message |-> msg]

PartialBody(msg, rec) == [status |-> "error", message |-> msg, data |-> rec]
SuccessBody(rec) == [status |-> "success", data |-> rec]

Reply(code, body) == [code |-> code, body |-> body]

Unset ==
  /\ pmid = <<>>
  /\ contributor = NoContributor
  /\ raw = [kind |-> "none"]
  /\ pubmed = None
  /\ urls = <<>>
  /\ homepage_url = <<>>
  /\ final = <<>>
  /\ extracted = EmptyExtracted
  /\ db_data = None
  /\ failure = None
  /\ bioreg = <<>>
  /\ responses = <<>>
  /\ trace = <<>>

Init ==
  /\ pc = "Validate"
  /\ data \in Bodies
  /\ Unset

\* lines 439-444
Validate ==
  /\ pc = "Validate"
  /\ pmid' = Strip(data.pmid)
  /\ contributor' = data.contributor
  /\ IF ValidPmid(pmid')
     THEN /\ pc' = "FetchMetadata"
          /\ trace' = Append(trace, "Validate")
          /\ UNCHANGED responses
     ELSE /\ pc' = "Done"
          /\ trace' = trace \o <<"Validate", "Respond">>
          /\ responses' = Append(responses, Reply(400, ErrorBody(InvalidPmidMessage)))
  /\ UNCHANGED <<data, raw, pubmed, urls, homepage_url, final, extracted,
                 db_data, failure, bioreg>>

\* lines 450-454, and 498-500 when the Metadata Client raises; the service
\* answers with any of RawResults, or with the answer the run started from
FetchMetadata ==
  /\ pc = "FetchMetadata"
  /\ \E r \in (IF raw.kind = "none" THEN RawResults ELSE {raw}) :
       /\ raw' = r
       /\ IF r.kind = "bad_item"
          THEN /\ UNCHANGED pubmed
               /\ pc' = "Done"
               /\ trace' = trace \o <<"FetchMetadata", "Respond">>
               /\ responses' = Append(responses, Reply(500, ErrorBody(NoneTypeMessage)))
          ELSE LET pm == extract_pubmed_metadata(pmid, r)
               IN  /\ pubmed' = pm
                   /\ IF HasError(pm)
                      THEN /\ pc' = "Done"
                           /\ trace' = trace \o <<"FetchMetadata", "Respond">>
                           /\ responses' =
                                Append(responses, Reply(500, ErrorBody(pm.error)))
                      ELSE /\ pc' = "ScanAbstractForURL"
                           /\ trace' = Append(trace, "FetchMetadata")
                           /\ UNCHANGED responses
  /\ UNCHANGED <<data, pmid, contributor, urls, homepage_url, final, extracted,
                 db_data, failure, bioreg>>

\* lines 460-474
ScanAbstractForURL ==
  /\ pc = "ScanAbstractForURL"
  /\ urls' = ScanUrls(PmGet(pubmed, "abstract", <<>>))
  /\ trace' = Append(trace, "ScanAbstractForURL")
  /\ IF urls' = <<>>
     THEN /\ failure' = [code |-> 400, message |-> NoUrlMessage]
          /\ pc' = "Assemble"
          /\ UNCHANGED homepage_url
     ELSE /\ homepage_url' = urls'[1]
          /\ pc' = "ScrapeHomepage"
          /\ UNCHANGED failure
  /\ UNCHANGED <<data, pmid, contributor, raw, pubmed, final, extracted,
                 db_data, bioreg, responses>>

\* lines 238-241: the agent ran and answered
AgentReturns ==
  /\ pc = "ScrapeHomepage"
  /\ final' \in Replies
  /\ pc' = "ParseReply"
  /\ trace' = Append(trace, "ScrapeHomepage")
  /\ UNCHANGED <<data, pmid, contributor, raw, pubmed, urls, homepage_url,
                 extracted, db_data, failure, bioreg, responses>>

\* lines 243-341 and 480-482: the answer is parsed and post-processed
ParseAgentReply ==
  /\ pc = "ParseReply"
  /\ extracted' = ParseReply(final)
  /\ db_data' = extract_database_info(homepage_url, final)
  /\ pc' = "Assemble"
  /\ UNCHANGED <<data, pmid, contributor, raw, pubmed, urls, homepage_url,
                 final, failure, bioreg, responses, trace>>

\* a variant of AgentRaises that calls the agent again after a failure
AgentRaises_Retry ==
  /\ pc = "ScrapeHomepage"
  /\ pc' = "ScrapeHomepage"
  /\ trace' = Append(trace, "ScrapeHomepage")
  /\ UNCHANGED <<data, pmid, contributor, raw, pubmed, urls, homepage_url,
                 final, extracted, db_data, failure, bioreg, responses>>

\* lines 483-484: the call of the agent raised
AgentRaises ==
  /\ pc = "ScrapeHomepage"
  /\ \E e \in AgentErrors :
       failure' = [code |-> 500, message |-> ScrapingFailedPrefix \o e]
  /\ pc' = "Assemble"
  /\ trace' = Append(trace, "ScrapeHomepage")
  /\ UNCHANGED <<data, pmid, contributor, raw, pubmed, urls, homepage_url,
                 final, extracted, db_data, bioreg, responses>>

\* lines 466, 485 and 494: db_data is still None on the two failure branches
Assemble ==
  /\ pc = "Assemble"
  /\ bioreg' = format_bioregistry_json(pubmed, db_data, contributor)
  /\ pc' = "Respond"
  /\ trace' = Append(trace, "Assemble")
  /\ UNCHANGED <<data, pmid, contributor, raw, pubmed, urls, homepage_url,
                 final, extracted, db_data, failure, responses>>

\* lines 467-471, 486-490 and 496
Respond ==
  /\ pc = "Respond"
  /\ responses' =
       Append(responses,
              IF failure = None THEN Reply(200, SuccessBody(bioreg))
              ELSE Reply(failure.code, PartialBody(failure.message, bioreg)))
  /\ pc' = "Done"
  /\ trace' = Append(trace, "Respond")
  /\ UNCHANGED <<data, pmid, contributor, raw, pubmed, urls, homepage_url,
                 final, extracted, db_data, failure, bioreg>>

Next ==
  \/ Validate
  \/ FetchMetadata
  \/ ScanAbstractForURL
  \/ AgentReturns
  \/ ParseAgentReply
  \/ AgentRaises
  \/ Assemble
  \/ Respond

Spec == Init /\ [][Next]_vars

(***************************************************************************)
(* Properties of the pipeline, checked under Spec.                         *)
(***************************************************************************)
DigitOnly(s) == Len(s) >= 1 /\ \A i \in DOMAIN s : s[i] \in Digit

Stages == Range(trace)

\* the handler went on to the metadata lookup
Accepted ==
  /\ trace # <<>>
  /\ trace[1] = "Validate"
  /\ pc = "FetchMetadata" \/ (Len(trace) >= 2 /\ trace[2] = "FetchMetadata")

\* the handler answered 400 with the fixed message and called nothing
Rejected ==
  /\ pc = "Done"
  /\ responses =
       <<[code |-> 400,
          body |-> [status  |-> "error",
                    message |-> "Invalid PMID. Provide numeric PMID like 12345678."]]>>
  /\ trace = <<"Validate", "Respond">>
  /\ raw.kind = "none"
  /\ final = <<>>

\* C1 as stated: a pmid string is accepted when it is digit-only of length
\* >= 1, and every other string (whitespace included) is rejected with 400
\* and the fixed message, nothing else being called.
C1_AsStated ==
  pc # "Validate" => IF DigitOnly(data.pmid) THEN Accepted ELSE Rejected

\* C1: validation looks at the pmid with its leading and trailing whitespace
\* removed: when that is digit-only of length >= 1 the pipeline proceeds to
\* the metadata lookup with it, and otherwise the answer is 400 with the
\* fixed message and neither the metadata service nor the agent is called.
C1_ValidationAfterStrip ==
  pc # "Validate" =>
    IF DigitOnly(Strip(data.pmid))
    THEN Accepted /\ pmid = Strip(data.pmid)
    ELSE Rejected

\* a pmid padded with whitespace was accepted
C1_Witness ==
  /\ pc = "FetchMetadata"
  /\ data.pmid # pmid
  /\ DigitOnly(pmid)

\* C2: when the metadata lookup returns a record with the error field set,
\* the answer is 500 with exactly that error text and no data key, and
\* nothing after the lookup runs: no URL scan, no agent, no assembler.
C2_MetadataErrorHalts ==
  "error" \in DOMAIN pubmed =>
    /\ pc = "Done"
    /\ responses =
         <<[code |-> 500, body |-> [status |-> "error", message |-> pubmed.error]]>>
    /\ "data" \notin DOMAIN responses[1].body
    /\ trace = <<"Validate", "FetchMetadata", "Respond">>
    /\ urls = <<>>
    /\ homepage_url = <<>>
    /\ final = <<>>
    /\ db_data = None
    /\ bioreg = <<>>

\* the lookup for pmid 12345678 failed and the handler answered
C2_Witness ==
  /\ pc = "Done"
  /\ "error" \in DOMAIN pubmed
  /\ data.pmid = Pmid12345678

\* the one entry the publications list is to hold
ExpectedPublication ==
  [doi |-> pubmed.doi, pubmed |-> pubmed.pmid, title |-> pubmed.title,
   year |-> pubmed.year]

\* C3: when the metadata was fetched but there is no DatabaseInfo (no URL in
\* the abstract: 400; the extractor raised: 500 with the reason in the
\* message), the error answer carries under data a record whose publications
\* entry is the fetched doi, pmid, title and year and whose example, pattern
\* and uri_format are empty strings.
C3_PartialSuccess ==
  (pc = "Done" /\ "ScanAbstractForURL" \in Stages /\ db_data = None) =>
    /\ Len(responses) = 1
    /\ responses[1].body.status = "error"
    /\ IF urls = <<>>
       THEN responses[1].code = 400
       ELSE /\ responses[1].code = 500
            /\ \E e \in AgentErrors :
                 responses[1].body.message = "Database scraping failed: " \o e
    /\ "data" \in DOMAIN responses[1].body
    /\ DOMAIN responses[1].body.data # {}
    /\ \A k \in DOMAIN responses[1].body.data :
         /\ responses[1].body.data[k].publications = <<ExpectedPublication>>
         /\ responses[1].body.data[k].example = <<>>
         /\ responses[1].body.data[k].pattern = <<>>
         /\ responses[1].body.data[k].uri_format = <<>>

\* the abstract held no URL and the handler answered 400 with a record
C3_Witness ==
  /\ pc = "Done"
  /\ "ScanAbstractForURL" \in Stages
  /\ urls = <<>>
  /\ pubmed.abstract # <<>>
  /\ "data" \in DOMAIN responses[1].body

OnePublication(out) ==
  /\ DOMAIN out # {}
  /\ \A k \in DOMAIN out :
       /\ Len(out[k].publications) = 1
       /\ DOMAIN out[k].publications[1] = {"doi", "pubmed", "title", "year"}
       /\ out[k].publications[1] = ExpectedPublication

\* C4: every record the assembler produces, and every response that carries
\* data, has a publications list of exactly one entry with the keys doi,
\* pubmed, title and year taken from the metadata, also when they are all
\* empty or null.
C4_OnePublication ==
  /\ "Assemble" \in Stages => OnePublication(bioreg)
  /\ \A i \in DOMAIN responses :
       "data" \in DOMAIN responses[i].body => OnePublication(responses[i].body.data)

\* a response carries a record although doi, title and year are empty
C4_Witness ==
  /\ pc = "Done"
  /\ "Assemble" \in Stages
  /\ pubmed.doi = ""
  /\ pubmed.title = ""
  /\ pubmed.year = None
  /\ "data" \in DOMAIN responses[1].body

\* C5: whatever the outcome of the lookup (success, import error, fetch
\* exception, empty result), the record the Metadata Client returns has a
\* pmid field equal to the requested digit string.
C5_PmidAlwaysPresent ==
  ("FetchMetadata" \in Stages
     /\ raw.kind \in {"ok", "import_error", "fetch_error", "empty"}) =>
    /\ "pmid" \in DOMAIN pubmed
    /\ pubmed.pmid = pmid

StageRank(st) ==
  CASE st = "Validate" -> 1
    [] st = "FetchMetadata" -> 2
    [] st = "ScanAbstractForURL" -> 3
    [] st = "ScrapeHomepage" -> 4
    [] st = "Assemble" -> 5
    [] st = "Respond" -> 6

\* C9: the stages of a request run in the order Validate, FetchMetadata,
\* ScanAbstractForURL, ScrapeHomepage, Assemble, Respond, each at most once;
\* the agent runs only after a lookup without error and a URL found; there
\* is never more than one response, there is exactly one when the handler
\* is done, and a 200 is only sent after the agent returned without raising.
C9_LinearNoRetry ==
  /\ \A i, j \in DOMAIN trace : i < j => StageRank(trace[i]) < StageRank(trace[j])
  /\ trace # <<>> => trace[1] = "Validate"
  /\ "ScanAbstractForURL" \in Stages =>
       /\ "FetchMetadata" \in Stages
       /\ "title" \in DOMAIN pubmed
       /\ "error" \notin DOMAIN pubmed
  /\ "ScrapeHomepage" \in Stages =>
       /\ "ScanAbstractForURL" \in Stages
       /\ urls # <<>>
       /\ homepage_url = urls[1]
  /\ "Assemble" \in Stages => "ScanAbstractForURL" \in Stages
  /\ Len(responses) <= 1
  /\ (pc = "Done") <=> (Len(responses) = 1)
  /\ (Len(responses) = 1) <=> ("Respond" \in Stages)
  /\ \A i \in DOMAIN responses :
       responses[i].code = 200 =>
         /\ responses[i].body.status = "success"
         /\ "ScrapeHomepage" \in Stages
         /\ "Assemble" \in Stages
         /\ failure = None
         /\ db_data # None

\* a request went through every stage and was answered 200
C9_Witness ==
  /\ pc = "Done"
  /\ trace = <<"Validate", "FetchMetadata", "ScanAbstractForURL",
               "ScrapeHomepage", "Assemble", "Respond">>
  /\ responses[1].code = 200

(***************************************************************************)
(* The Text Scanner on its own: the handler is about to scan an abstract   *)
(* made of at most MaxChunks pieces.                                       *)
(***************************************************************************)
MaxChunks == 3

ScanChunks ==
  {Http, Https, <<"a">>, <<".">>, <<",">>, <<";">>, <<":">>, <<"/">>,
   <<")">>, <<"]">>, <<" ">>}

ScanTexts ==
  {Join(cs) : cs \in UNION {[1..n -> ScanChunks] : n \in 0..MaxChunks}}
  \cup {AbstractTwoUrls}

InitScan ==
  /\ pc = "ScanAbstractForURL"
  /\ data = [pmid |-> Pmid12345678, contributor |-> NoContributor]
  /\ pmid = Pmid12345678
  /\ contributor = NoContributor
  /\ \E text \in ScanTexts :
       /\ raw = [kind |-> "ok", item |-> [ItemEmpty EXCEPT !.abstract = text]]
       /\ pubmed = BuildMetadata(pmid, raw.item)
  /\ urls = <<>>
  /\ homepage_url = <<>>
  /\ final = <<>>
  /\ extracted = EmptyExtracted
  /\ db_data = None
  /\ failure = None
  /\ bioreg = <<>>
  /\ responses = <<>>
  /\ trace = <<"Validate", "FetchMetadata">>

SpecScan == InitScan /\ [][ScanAbstractForURL]_vars

SchemeAt(t, a) == StartsAt(t, a, Http) \/ StartsAt(t, a, Https)

\* t[a..b] starts with a scheme, goes on after it, holds no whitespace, ')'
\* or ']', and cannot be extended to the right
RunFrom(t, a, b) ==
  /\ SchemeAt(t, a)
  /\ \A i \in a..b : t[i] \notin UrlStop
  /\ b = Len(t) \/ t[b + 1] \in UrlStop
  /\ b >= a + (IF StartsAt(t, a, Https) THEN 8 ELSE 7)

\* the runs that lie in no other run
MaximalRuns(t) ==
  {r \in (1..Len(t)) \X (1..Len(t)) :
     /\ RunFrom(t, r[1], r[2])
     /\ \A a \in 1..(r[1] - 1) : ~RunFrom(t, a, r[2])}

\* u without its trailing '.', ',', ';' and ':'
Untrailed(u) ==
  CHOOSE v \in {SubSeq(u, 1, n) : n \in 0..Len(u)} :
    /\ v = <<>> \/ v[Len(v)] \notin TrailPunct
    /\ \A i \in (Len(v) + 1)..Len(u) : u[i] \in TrailPunct

\* us is the runs of t in their order of appearance, each untrailed
IsRunsOf(us, t) ==
  /\ Len(us) = Cardinality(MaximalRuns(t))
  /\ \A r \in MaximalRuns(t) :
       LET i == 1 + Cardinality({q \in MaximalRuns(t) : q[1] < r[1]})
       IN  us[i] = Untrailed(SubSeq(t, r[1], r[2]))

\* a scheme followed by a non-empty remainder
WellFormedUrl(u) ==
  \/ StartsAt(u, 1, Https) /\ Len(u) > Len(Https)
  \/ StartsAt(u, 1, Http) /\ ~StartsAt(u, 1, Https) /\ Len(u) > Len(Http)

Scanned == pc # "ScanAbstractForURL" /\ "ScanAbstractForURL" \in Stages

\* the part of C6 that describes the matching: the result is the maximal
\* runs in order of appearance, untrailed, and the sample sentence yields
\* its two URLs
C6_RunsInOrder ==
  Scanned =>
    /\ IsRunsOf(urls, pubmed.abstract)
    /\ pubmed.abstract = AbstractTwoUrls =>
         urls = << <<"h","t","t","p",":","/","/","a",".","c","o","/","x">>,
                   <<"h","t","t","p","s",":","/","/","b",".","o","r","g","/","y">> >>
    /\ \A i \in DOMAIN urls : urls[i][Len(urls[i])] \notin TrailPunct

\* C6: the result is the maximal runs that start with http:// or https://
\* and hold no whitespace, ')' or ']', in order of appearance and without
\* their trailing '.', ',', ';', ':'; and every returned string is a
\* well-formed URL, a scheme followed by a non-empty remainder, that does not
\* end in one of the four characters.
C6_WellFormedUrls ==
  Scanned =>
    /\ C6_RunsInOrder
    /\ \A i \in DOMAIN urls : WellFormedUrl(urls[i])

(***************************************************************************)
(* The Database-Info Extractor on its own: the agent has answered and the  *)
(* answer is about to be parsed.  An answer is made of at most one line    *)
(* for each of Name, Prefix, Example and Pattern.                          *)
(***************************************************************************)
MaxExampleLen == 3

Examples ==
  UNION {[1..n -> {"A", "b", "7"}] : n \in 0..MaxExampleLen}
  \cup {<<"A","B","C","1","2","3">>,
        <<"1","2","3","4","5">>,
        <<"a","b","c","1","2","3">>,
        <<"X","0","1","2","3","4","5","6","7","8","9">>}

NameKegg ==
  <<"K","y","o","t","o"," ","E","n","c","y","c","l","o","p","e","d",
    "i","a"," ","o","f"," ","G","e","n","e","s"," ","a","n","d"," ",
    "G","e","n","o","m","e","s">>

NameLines ==
  {<<>>,
   <<<<"N","a","m","e",":"," ">> \o NameKegg>>,
   <<<<"n","a","m","e"," ",":"," ","G","e","n","e","\t","D","B"," "," ",
      "v","2">>>>,
   <<<<"N","A","M","E",":">>>>}

PrefixLines ==
  {<<>>,
   <<<<"P","r","e","f","i","x",":"," ","K","E","G","G">>>>,
   <<<<"p","r","e","f","i","x",":">>>>}

PatternLines ==
  {<<>>,
   <<<<"P","a","t","t","e","r","n",":"," ","^","[","A","-","Z","]","{",
     "3","}","\\","\\","d","{","3","}","$">>>>,
   <<<<"p","a","t","t","e","r","n"," ",":">>>>}

ExampleLines == {<<>>} \cup {<<<<"E","x","a","m","p","l","e",":"," ">> \o e>> : e \in Examples}

\* '\n'.join(lines)
RECURSIVE JoinLines(_)
JoinLines(lines) ==
  IF lines = <<>> THEN <<>>
  ELSE IF Len(lines) = 1 THEN Head(lines)
  ELSE Head(lines) \o <<Newline>> \o JoinLines(Tail(lines))

ExtractorReplies ==
  {JoinLines(n \o p \o e \o t) :
     n \in NameLines, p \in PrefixLines, e \in ExampleLines, t \in PatternLines}
  \cup {ReplyKegg, ReplyNoPrefix}

InitExtractor ==
  /\ pc = "ParseReply"
  /\ data = [pmid |-> Pmid12345678, contributor |-> NoContributor]
  /\ pmid = Pmid12345678
  /\ contributor = NoContributor
  /\ raw = [kind |-> "ok", item |-> ItemKegg]
  /\ pubmed = BuildMetadata(pmid, ItemKegg)
  /\ urls = ScanUrls(AbstractKegg)
  /\ homepage_url = urls[1]
  /\ final \in ExtractorReplies
  /\ extracted = EmptyExtracted
  /\ db_data = None
  /\ failure = None
  /\ bioreg = <<>>
  /\ responses = <<>>
  /\ trace = <<"Validate", "FetchMetadata", "ScanAbstractForURL", "ScrapeHomepage">>

SpecExtractor == InitExtractor /\ [][ParseAgentReply]_vars

\* the answer has been parsed and post-processed
Extracted == "ScrapeHomepage" \in Stages /\ db_data # None

\* e is one or more characters of cls followed by one or more digits
LettersThenDigits(e, cls) ==
  \E k \in 1..(Len(e) - 1) :
    /\ \A i \in 1..k : e[i] \in cls
    /\ \A i \in (k + 1)..Len(e) : e[i] \in Digit

\* n in decimal, for n < 100
Decimal(n) ==
  IF n < 10 THEN <<DigitSeq[n + 1]>>
  ELSE <<DigitSeq[(n \div 10) + 1], DigitSeq[(n % 10) + 1]>>

\* ^LETTERS\d{N}$ for an example of k letters and N digits
AnchoredPattern(e, k) ==
  <<"^">> \o SubSeq(e, 1, k) \o <<"\\", "d", "{">> \o Decimal(Len(e) - k)
  \o <<"}", "$">>

PatternInferred(cls) ==
  (extracted.pattern = <<>> /\ extracted.example # <<>>) =>
    /\ LettersThenDigits(extracted.example, cls) =>
         \E k \in 1..(Len(extracted.example) - 1) :
           /\ extracted.example[k] \in cls
           /\ extracted.example[k + 1] \in Digit
           /\ db_data.pattern = AnchoredPattern(extracted.example, k)
    /\ DigitOnly(extracted.example) =>
         db_data.pattern = AnchoredPattern(extracted.example, 0)

\* an example of another shape gets no pattern
PatternElse ==
  (/\ extracted.pattern = <<>>
   /\ ~LettersThenDigits(extracted.example, Upper)
   /\ ~DigitOnly(extracted.example)) => db_data.pattern = <<>>

PatternKept == extracted.pattern # <<>> => db_data.pattern = extracted.pattern

\* C7 as stated: with no pattern parsed and a non-empty example, an example
\* of letters followed by digits gives ^LETTERS\d{N}$ and an all-digit
\* example gives ^\d{N}$; a parsed pattern is left as parsed.
C7_AsStated == Extracted => PatternInferred(Letter) /\ PatternKept

\* C7: with no pattern parsed and a non-empty example, an example of
\* upper-case ASCII letters followed by digits gives ^LETTERS\d{N}$ with the
\* exact letters and digit count, and an all-digit example gives ^\d{N}$
\* for its length; any other example leaves the pattern empty; a parsed
\* pattern is left as parsed.
C7_PatternInference ==
  Extracted => PatternInferred(Upper) /\ PatternElse /\ PatternKept

\* the example ABC123 without a pattern gave ^ABC\d{3}$
C7_Witness ==
  /\ Extracted
  /\ extracted.pattern = <<>>
  /\ extracted.example = <<"A","B","C","1","2","3">>
  /\ db_data.pattern = <<"^", "A", "B", "C", "\\", "d", "{", "3", "}", "$">>

\* the positions of name at which a whitespace-separated word starts
WordStarts(name) ==
  {i \in DOMAIN name : name[i] \notin Space /\ (i = 1 \/ name[i - 1] \in Space)}

\* the lower-cased first characters of the words of name, in order
LowerInitials(name) ==
  [j \in 1..Cardinality(WordStarts(name)) |->
     LowerChar(name[CHOOSE i \in WordStarts(name) :
                      Cardinality({m \in WordStarts(name) : m < i}) = j - 1])]

\* the value of the last Prefix line of the answer, as the agent wrote it
WrittenPrefix ==
  LET lines == ReplyLines(Replace2(final, <<Backslash, "n">>, Newline))
      hits  == {i \in DOMAIN lines :
                  /\ FirstColon(lines[i]) > 1
                  /\ NormalizeLabel(Strip(SubSeq(lines[i], 1, FirstColon(lines[i]) - 1)))
                       = L_prefix}
  IN  IF hits = {} THEN <<>>
      ELSE LET i == CHOOSE h \in hits : \A g \in hits : g <= h
           IN  Strip(Drop(lines[i], FirstColon(lines[i]) + 1))

\* C8: with an empty prefix and a non-empty name in the answer, the returned
\* prefix is the lower-cased first characters of the whitespace-separated
\* words of the name; with a non-empty prefix in the answer, the returned
\* prefix is that value lower-cased, whatever the name.
C8_PrefixDerivation ==
  Extracted =>
    /\ (WrittenPrefix = <<>> /\ extracted.name # <<>>) =>
         db_data.prefix = LowerInitials(extracted.name)
    /\ WrittenPrefix # <<>> => db_data.prefix = ToLower(WrittenPrefix)

\* the name of KEGG without a prefix gave keogag
C8_Witness ==
  /\ Extracted
  /\ WrittenPrefix = <<>>
  /\ extracted.name = NameKegg
  /\ db_data.prefix = <<"k", "e", "o", "g", "a", "g">>

(***************************************************************************)
(* The Record Assembler on its own: format_bioregistry_json is about to be *)
(* called with a metadata record and with no DatabaseInfo or with one      *)
(* whose name is made of at most MaxNameParts pieces.                      *)
(***************************************************************************)
MaxNameParts == 3

NameParts ==
  {<<"G","e","n","e">>, <<"D","B">>, <<" ">>, <<"-">>, <<"v">>,
   <<" ","V","e","r","s","i","o","n"," ">>, <<"2">>, <<".", "1">>}

AsmNames ==
  {Strip(Join(ps)) : ps \in UNION {[1..n -> NameParts] : n \in 0..MaxNameParts}}

AsmHomepages ==
  {<<>>,
   <<"h","t","t","p","s",":","/","/","w","w","w",".","k","e","g","g",
      ".","j","p","/","k","e","g","g","2",".","h","t","m","l">>,
   <<"h","t","t","p",":","/","/","w","w","w">>,
   <<"h","t","t","p",":","/","/","w","w","w",".","/","x">>,
   <<"h","t","t","p",":","/","/">>,
   <<"h","t","t","p",":","/","/","/","a"," ","h","t","t","p",":","/",
      "/","b"," ","v","2",".","o","r","g">>,
   <<"N","/","A">>,
   <<"h","t","t","p",":","/","/","M","y","-","D","B",".","o","r","g",
      ":","8","0","/","x">>,
   <<"h","t","t","p","s",":","/","/","g","e","n","e","d","b","v","2",
      ".","o","r","g">>,
   <<"s","e","e"," ","h","t","t","p","s",":","/","/","w","w","w","x">>}

AsmPrefixes == {<<>>, <<"k", "e", "g", "g">>}

AsmDb(name, prefix, homepage) ==
  [name |-> name, prefix |-> prefix, description |-> <<>>,
   homepage |-> homepage, example |-> <<>>, pattern |-> <<>>,
   uri_format |-> <<>>, keywords |-> <<>>,
   contact |-> [email |-> <<>>, name |-> <<>>, orcid |-> <<>>]]

AsmDbs ==
  {AsmDb(n, p, <<"h","t","t","p","s",":","/","/","w","w","w",".","k","e","g","g",
      ".","j","p","/","k","e","g","g","2",".","h","t","m","l">>) :
     n \in AsmNames, p \in AsmPrefixes}
  \cup {AsmDb(<<>>, p, h) : p \in AsmPrefixes, h \in AsmHomepages}

InitAssembler ==
  /\ pc = "Assemble"
  /\ data = [pmid |-> Pmid12345678, contributor |-> NoContributor]
  /\ pmid = Pmid12345678
  /\ contributor = NoContributor
  /\ \E a \in {AbstractNoUrl, AbstractKegg, AbstractBareScheme} :
       /\ raw = [kind |-> "ok", item |-> [ItemEmpty EXCEPT !.abstract = a]]
       /\ pubmed = BuildMetadata(pmid, raw.item)
       /\ urls = ScanUrls(a)
  /\ homepage_url = IF urls # <<>> THEN urls[1] ELSE <<>>
  /\ final = <<>>
  /\ extracted = EmptyExtracted
  /\ \/ db_data = None
     \/ db_data \in AsmDbs
  /\ failure = None
  /\ bioreg = <<>>
  /\ responses = <<>>
  /\ trace = <<"Validate", "FetchMetadata", "ScanAbstractForURL">>

SpecAssembler == InitAssembler /\ [][Assemble]_vars

\* the longest prefix of y that holds neither '.' nor '/'
FirstLabel(y) ==
  CHOOSE l \in {SubSeq(y, 1, n) : n \in 0..Len(y)} :
    /\ \A i \in DOMAIN l : l[i] \notin {".", "/"}
    /\ Len(l) = Len(y) \/ y[Len(l) + 1] \in {".", "/"}

\* the text between the scheme, plus an optional www., and the next dot or
\* slash, for the text x that follows the scheme
LabelAfterScheme(x) ==
  IF StartsAt(x, 1, Www) /\ FirstLabel(Drop(x, 5)) # <<>>
  THEN FirstLabel(Drop(x, 5))
  ELSE FirstLabel(x)

\* the text that follows the scheme found at position a of h
AfterScheme(h, a) == Drop(h, a + (IF StartsAt(h, a, Https) THEN 8 ELSE 7))

\* the positions of h at which a scheme with a domain label starts
LabelledAt(h) ==
  {a \in DOMAIN h : SchemeAt(h, a) /\ LabelAfterScheme(AfterScheme(h, a)) # <<>>}

\* the homepage of the record: DatabaseInfo's, else the one of the abstract
RecordHomepage ==
  IF db_data # None /\ db_data.homepage # <<>> THEN db_data.homepage
  ELSE pubmed.homepage

\* the resolved name of C10
ExpectedName ==
  IF db_data # None /\ db_data.name # <<>> THEN db_data.name
  ELSE IF LabelledAt(RecordHomepage) # {}
  THEN LabelAfterScheme(
         AfterScheme(RecordHomepage,
                     CHOOSE a \in LabelledAt(RecordHomepage) :
                       \A b \in LabelledAt(RecordHomepage) : a <= b))
  ELSE <<"d", "a", "t", "a", "b", "a", "s", "e">>

\* t is a number such as 2 or 3.1: digits, single dots between digits
IsDottedNumber(t) ==
  /\ t # <<>>
  /\ \A i \in DOMAIN t : t[i] \in Digit \cup {"."}
  /\ t[1] \in Digit
  /\ t[Len(t)] \in Digit
  /\ \A i \in 1..(Len(t) - 1) : ~(t[i] = "." /\ t[i + 1] = ".")

\* t is a version suffix: optional whitespace, v or version in any case,
\* optional whitespace, a dotted number
IsVersionTail(t) ==
  \E a \in 0..Len(t), n \in {1, 7}, b \in 0..Len(t) :
    /\ a + n + b < Len(t)
    /\ \A i \in 1..a : t[i] \in Space
    /\ ToLower(SubSeq(t, a + 1, a + n)) \in {<<"v">>, <<"v","e","r","s","i","o","n">>}
    /\ \A i \in (a + n + 1)..(a + n + b) : t[i] \in Space
    /\ IsDottedNumber(SubSeq(t, a + n + b + 1, Len(t)))

\* name without its trailing version suffix, the longest one
WithoutVersion(name) ==
  LET cuts == {n \in 0..(Len(name) - 1) : IsVersionTail(Drop(name, n + 1))}
  IN  IF cuts = {} THEN name
      ELSE SubSeq(name, 1, CHOOSE n \in cuts : \A m \in cuts : n <= m)

IsAsciiAlNum(c) == c \in Upper \cup Lower \cup Digit

\* the resolved name without version suffix and non-alphanumeric characters,
\* lower-cased
ExpectedStem == ToLower(SelectSeq(WithoutVersion(ExpectedName), IsAsciiAlNum))

Assembled == "Assemble" \in Stages

NoPrefixGiven == db_data = None \/ db_data.prefix = <<>>

\* C10: when DatabaseInfo provides no prefix, the name of the record is
\* DatabaseInfo's name if non-empty, else the domain label of the homepage,
\* else "database"; the key of the record is that name with a trailing
\* version suffix stripped, the non-alphanumeric characters removed and the
\* rest lower-cased, and it is "database_key" exactly when that is empty.
C10_KeyDerivation ==
  (Assembled /\ NoPrefixGiven) =>
    /\ Cardinality(DOMAIN bioreg) = 1
    /\ \A k \in DOMAIN bioreg :
         /\ bioreg[k].name = ExpectedName
         /\ ExpectedStem # <<>> => k = ExpectedStem
         /\ (k = <<"d","a","t","a","b","a","s","e","_","k","e","y">>)
              <=> (ExpectedStem = <<>>)

\* a name with a version suffix and no prefix gave the key gene
C10_Witness ==
  /\ Assembled
  /\ db_data # None
  /\ db_data.prefix = <<>>
  /\ db_data.name = <<"G","e","n","e"," ","V","e","r","s","i","o","n"," ","2">>
  /\ DOMAIN bioreg = {<<"g", "e", "n", "e">>}

(***************************************************************************)
(* The Metadata Client on its own: extract_pubmed_metadata is about to be  *)
(* called and the service will answer with one record, whose year field is *)
(* drawn from a few shapes and whose pubdate is made of at most            *)
(* MaxDateParts pieces.                                                    *)
(***************************************************************************)
MaxDateParts == 3

InitMetadata ==
  LET DateParts ==
        {<<"1", "9">>, <<"2", "0">>, <<"9", "8">>, <<"2">>, <<"0">>,
         <<" ">>, <<"x">>}
      Pubdates ==
        {Join(ps) : ps \in UNION {[1..n -> DateParts] : n \in 0..MaxDateParts}}
      YearFields ==
        {NoYear,
         [t |-> "int", v |-> 0],
         [t |-> "int", v |-> 2021],
         [t |-> "str", v |-> <<>>],
         [t |-> "str", v |-> <<"1", "9", "9", "8">>],
         [t |-> "str", v |-> <<" ", "2", "0", "0", "5", " ">>],
         [t |-> "str", v |-> <<"n", ".", "d", ".">>],
         [t |-> "str", v |-> <<"2", "0", "x">>]}
  IN  /\ pc = "FetchMetadata"
      /\ data = [pmid |-> Pmid12345678, contributor |-> NoContributor]
      /\ pmid = Pmid12345678
      /\ contributor = NoContributor
      /\ \E y \in YearFields, d \in Pubdates :
           raw = [kind |-> "ok",
                  item |-> [ItemEmpty EXCEPT !.year = y, !.pubdate = d]]
      /\ pubmed = None
      /\ urls = <<>>
      /\ homepage_url = <<>>
      /\ final = <<>>
      /\ extracted = EmptyExtracted
      /\ db_data = None
      /\ failure = None
      /\ bioreg = <<>>
      /\ responses = <<>>
      /\ trace = <<"Validate">>

SpecMetadata == InitMetadata /\ [][FetchMetadata]_vars

\* the metadata lookup ran and gave a record
Fetched == "FetchMetadata" \in Stages /\ raw.kind = "ok" /\ ~HasError(pubmed)

\* the year field holds a number, as an integer or as decimal text
NumericField(y) ==
  \/ y.t = "int"
  \/ y.t = "str" /\ DigitOnly(Strip(y.v))

FieldNumber(y) == IF y.t = "int" THEN y.v ELSE DigitsValue(Strip(y.v))

\* the positions of d at which four digits beginning with 19 or 20 start
YearTokens(d) ==
  {i \in 1..(Len(d) - 3) :
     /\ <<d[i], d[i + 1]>> \in {<<"1", "9">>, <<"2", "0">>}
     /\ d[i + 2] \in Digit
     /\ d[i + 3] \in Digit}

\* the first such token of d as a number, absent when there is none
FirstYearToken(d) ==
  IF YearTokens(d) = {} THEN None
  ELSE LET i == CHOOSE k \in YearTokens(d) : \A j \in YearTokens(d) : k <= j
       IN  Some(DigitsValue(SubSeq(d, i, i + 3)))

\* the year the code gives: the number of a non-empty, non-zero year field,
\* nothing at all when such a field is not a number, and the first token of
\* the pubdate only when the year field is absent, empty or zero
YearAsCoded ==
  Fetched =>
    LET y == raw.item.year
        given == \/ y.t = "int" /\ y.v # 0
                 \/ y.t = "str" /\ y.v # <<>>
    IN  pubmed.year =
          IF given /\ NumericField(y) THEN Some(FieldNumber(y))
          ELSE IF given THEN None
          ELSE FirstYearToken(raw.item.pubdate)

\* C11: the year is the number of an explicit numeric year field; otherwise
\* (the field is absent, empty or not numeric) it is the first 4-digit token
\* beginning with 19 or 20 of the pubdate, and absent only when the pubdate
\* holds no such token.
C11_YearNormalization ==
  Fetched =>
    pubmed.year =
      IF NumericField(raw.item.year) THEN Some(FieldNumber(raw.item.year))
      ELSE FirstYearToken(raw.item.pubdate)

(***************************************************************************)
(* The key of the record in the answers of the pipeline, checked under     *)
(* Spec.                                                                   *)
(***************************************************************************)
\* the prefix of the request: DatabaseInfo's when it has one, else the one
\* made from the resolved name
RequestPrefix ==
  IF ~NoPrefixGiven THEN db_data.prefix
  ELSE IF ExpectedStem # <<>> THEN ExpectedStem
  ELSE <<"d", "a", "t", "a", "b", "a", "s", "e", "_", "k", "e", "y">>

\* the answers that carry a record under data
WithData == {i \in DOMAIN responses : "data" \in DOMAIN responses[i].body}

\* C12: every answer of POST /extract that carries a record under data
\* (success, no URL, scrape failure) carries a mapping with exactly one key;
\* the key is non-empty, holds no upper-case ASCII letter and is the prefix
\* derived for the request.
C12_SingleLowercaseKey ==
  \A i \in WithData :
    /\ Cardinality(DOMAIN responses[i].body.data) = 1
    /\ \A k \in DOMAIN responses[i].body.data :
         /\ k # <<>>
         /\ \A j \in DOMAIN k : k[j] \notin Upper
         /\ k = RequestPrefix

\* the agent wrote the prefix KEGG and the answer carries a record under kegg
C12_Witness ==
  /\ final = ReplyKegg
  /\ WithData = {1}
  /\ responses[1].code = 200
  /\ DOMAIN responses[1].body.data = {<<"k", "e", "g", "g">>}

====
